---- MODULE Spec2Model ----
(***************************************************************************)
(* wasm_utils/src/memory_allocation.rs                                     *)
(*                                                                         *)
(* The u32 <-> (u16, u16) bit helpers, SinglePageAllocation (decode and    *)
(* encode of an allocation packed in one u32) and SinglePageStack (the     *)
(* bump allocator of one 64KiB WASM page).                                 *)
(*                                                                         *)
(* A u16 is a natural number below 65536.  A u32 is kept as its two 16-bit  *)
(* halves, since it does not fit in one of TLC's 32-bit signed integers;   *)
(* the shifts, the or and the casts of the source are done on its 32 bits. *)
(***************************************************************************)
EXTENDS Integers, Sequences, FiniteSets, TLC

\* const U16_MAX: u32 = <u16>::max_value() as u32
U16_MAX == 65535

\* Sample of the u16 values within CodecEdge of either end of the range.
CodecEdge == 4

\* Sample of the u16 values within StackEdge of either end of the range.
StackEdge == 1

\* Cap on the number of regions handed out by allocate and not yet freed.
MaxLive == 2

\* Sample of the sizes within SizeEdge of either end of the range, for the
\* callers that keep to the stack discipline.
SizeEdge == 3

EdgeValues(e) == (0..e) \cup ((U16_MAX - e)..U16_MAX)

CodecSample == EdgeValues(CodecEdge)

StackSample == EdgeValues(StackEdge)

SizeSample == EdgeValues(SizeEdge) \ {0}

(***************************************************************************)
(* u32 and u16 arithmetic                                                  *)
(***************************************************************************)
BitPositions == 0..31

\* The u32 whose bits 31..16 write hi and whose bits 15..0 write lo.
WordOf(hi, lo) == [hi |-> hi, lo |-> lo]

ZeroWord == WordOf(0, 0)

\* bit k of the natural number n
BitOf(n, k) == (n \div (2^k)) % 2

\* the 32 bits of the u32 w, bit 0 the least significant
BitsOf(w) ==
    [k \in BitPositions |-> IF k < 16 THEN BitOf(w.lo, k) ELSE BitOf(w.hi, k - 16)]

RECURSIVE BitsValue(_, _, _)
\* the number written by the n bits of b that start at bit from
BitsValue(b, from, n) ==
    IF n = 0 THEN 0 ELSE b[from] + 2 * BitsValue(b, from + 1, n - 1)

\* the u32 with the bits b
FromBits(b) == WordOf(BitsValue(b, 16, 16), BitsValue(b, 0, 16))

\* u32::from(x) for a u16 x: zero extension
U32FromU16(x) == FromBits([k \in BitPositions |-> IF k < 16 THEN BitOf(x, k) ELSE 0])

\* w << s on u32
Shl(w, s) ==
    LET b == BitsOf(w)
    IN  FromBits([k \in BitPositions |-> IF k >= s THEN b[k - s] ELSE 0])

\* w >> s on u32
Shr(w, s) ==
    LET b == BitsOf(w)
    IN  FromBits([k \in BitPositions |-> IF k + s <= 31 THEN b[k + s] ELSE 0])

\* a | b on u32
BitOr(a, b) ==
    LET x == BitsOf(a)
        y == BitsOf(b)
    IN  FromBits([k \in BitPositions |-> IF x[k] = 1 \/ y[k] = 1 THEN 1 ELSE 0])

\* w as u16: the truncating cast keeps bits 0..15
AsU16(w) == BitsValue(BitsOf(w), 0, 16)

(***************************************************************************)
(* Helpers                                                                 *)
(***************************************************************************)
\* (i >> 16) as u16
u32_high_bits(i) == AsU16(Shr(i, 16))

\* (i as u16 % <u16>::max_value())
u32_low_bits(i) == AsU16(i) % U16_MAX

u32_split_bits(i) == <<u32_high_bits(i), u32_low_bits(i)>>

\* (u32::from(high) << 16) | u32::from(low)
u32_merge_bits(high, low) == BitOr(Shl(U32FromU16(high), 16), U32FromU16(low))

(***************************************************************************)
(* RibosomeReturnCode::from_offset of the error module                     *)
(***************************************************************************)
from_offset(offset) ==
    CASE offset = 0 -> "Success"
      [] offset = 1 -> "Failure"
      [] offset = 2 -> "ArgumentDeserializationFailed"
      [] offset = 3 -> "OutOfMemory"
      [] offset = 4 -> "ReceivedWrongActionResult"
      [] OTHER -> "Failure"

(***************************************************************************)
(* SinglePageAllocation                                                    *)
(***************************************************************************)
SinglePageAllocation(offset, length) == [offset |-> offset, length |-> length]

NoError == "none"

Ok(allocation) == [ok |-> TRUE, allocation |-> allocation, err |-> NoError]

Err(code) == [ok |-> FALSE, allocation |-> SinglePageAllocation(0, 0), err |-> code]

\* new with the zero test on the offset instead of the length.
new_ZeroTestOnOffset(encoded_allocation) ==
    LET split == u32_split_bits(encoded_allocation)
        allocation == SinglePageAllocation(split[1], split[2])
    IN  IF allocation.offset = 0
        THEN Err(from_offset(allocation.offset))
        ELSE IF allocation.offset + allocation.length > U16_MAX
        THEN Err("OutOfMemory")
        ELSE Ok(allocation)

\* new with the overflow test done in u16, where the sum wraps around.
new_WrappingOverflowTest(encoded_allocation) ==
    LET split == u32_split_bits(encoded_allocation)
        allocation == SinglePageAllocation(split[1], split[2])
    IN  IF allocation.length = 0
        THEN Err(from_offset(allocation.offset))
        ELSE IF (allocation.offset + allocation.length) % 65536 > U16_MAX
        THEN Err("OutOfMemory")
        ELSE Ok(allocation)

\* new with the generic error code on the overflow branch.
new_OverflowIsFailure(encoded_allocation) ==
    LET split == u32_split_bits(encoded_allocation)
        allocation == SinglePageAllocation(split[1], split[2])
    IN  IF allocation.length = 0
        THEN Err(from_offset(allocation.offset))
        ELSE IF allocation.offset + allocation.length > U16_MAX
        THEN Err("Failure")
        ELSE Ok(allocation)

\* SinglePageAllocation::new(encoded_allocation)
SinglePageAllocation_new(encoded_allocation) ==
    LET split == u32_split_bits(encoded_allocation)
        allocation == SinglePageAllocation(split[1], split[2])
    IN  IF allocation.length = 0
        THEN Err(from_offset(allocation.offset))
        ELSE IF allocation.offset + allocation.length > U16_MAX
        THEN Err("OutOfMemory")
        ELSE Ok(allocation)

\* SinglePageAllocation::encode(self)
encode(self) == u32_merge_bits(self.offset, self.length)

(***************************************************************************)
(* SinglePageStack                                                         *)
(***************************************************************************)
\* What a call on the stack does: how it ends ("Ok", "Err", or "abort"
\* when an assert!, an expect or an overflow check panics), the top it
\* leaves and the u16 it returns.
Outcome(res, t, ret) == [res |-> res, top |-> t, ret |-> ret]

\* SinglePageStack::new(last_allocation)
SinglePageStack_new(last_allocation) ==
    IF last_allocation.offset + last_allocation.length <= U16_MAX
    THEN Outcome("Ok", last_allocation.offset + last_allocation.length, 0)
    ELSE Outcome("abort", 0, 0)

\* from_encoded with a strict bound in its assert!.
from_encoded_StrictAssert(encoded_last_allocation) ==
    LET last_allocation == SinglePageAllocation_new(encoded_last_allocation)
    IN  IF ~last_allocation.ok
        THEN Outcome("abort", 0, 0)
        ELSE IF last_allocation.allocation.offset
                  + last_allocation.allocation.length < U16_MAX
        THEN SinglePageStack_new(last_allocation.allocation)
        ELSE Outcome("abort", 0, 0)

\* SinglePageStack::from_encoded(encoded_last_allocation)
from_encoded(encoded_last_allocation) ==
    LET last_allocation == SinglePageAllocation_new(encoded_last_allocation)
    IN  IF ~last_allocation.ok
        THEN Outcome("abort", 0, 0)
        ELSE IF last_allocation.allocation.offset
                  + last_allocation.allocation.length <= U16_MAX
        THEN SinglePageStack_new(last_allocation.allocation)
        ELSE Outcome("abort", 0, 0)

\* allocate with the sum of its assert! taken in u16, where it wraps around.
allocate_WrappingAssert(t, size) ==
    IF (t + size) % 65536 <= U16_MAX
    THEN Outcome("Ok", (t + size) % 65536, t)
    ELSE Outcome("abort", t, 0)

\* allocate returning the top it leaves instead of the top it found.
allocate_ReturnsNewTop(t, size) ==
    IF t + size <= U16_MAX
    THEN Outcome("Ok", (t + size) % 65536, (t + size) % 65536)
    ELSE Outcome("abort", t, 0)

\* SinglePageStack::allocate(&mut self, size), self.top = t
allocate(t, size) ==
    IF t + size <= U16_MAX
    THEN Outcome("Ok", (t + size) % 65536, t)
    ELSE Outcome("abort", t, 0)

\* deallocate lowering top before it compares.
deallocate_PopsOnErr(t, allocation, checks) ==
    LET sum == allocation.offset + allocation.length
    IN  IF sum > U16_MAX /\ checks
        THEN Outcome("abort", t, 0)
        ELSE IF t = sum % 65536
        THEN Outcome("Ok", allocation.offset, 0)
        ELSE Outcome("Err", allocation.offset, 0)

\* deallocate returning Ok without lowering top.
deallocate_KeepsTop(t, allocation, checks) ==
    LET sum == allocation.offset + allocation.length
    IN  IF sum > U16_MAX /\ checks
        THEN Outcome("abort", t, 0)
        ELSE IF t = sum % 65536
        THEN Outcome("Ok", t, 0)
        ELSE Outcome("Err", t, 0)

\* deallocate accepting every allocation that ends at or below top.
deallocate_AtOrBelowTop(t, allocation, checks) ==
    LET sum == allocation.offset + allocation.length
    IN  IF sum > U16_MAX /\ checks
        THEN Outcome("abort", t, 0)
        ELSE IF t >= sum % 65536
        THEN Outcome("Ok", allocation.offset, 0)
        ELSE Outcome("Err", t, 0)

\* SinglePageStack::deallocate(&mut self, allocation), self.top = t.
\* allocation.offset + allocation.length is a u16 addition: when it
\* overflows, a build with overflow checks panics and a build without
\* them wraps around.
deallocate(t, allocation, checks) ==
    LET sum == allocation.offset + allocation.length
    IN  IF sum > U16_MAX /\ checks
        THEN Outcome("abort", t, 0)
        ELSE IF t = sum % 65536
        THEN Outcome("Ok", allocation.offset, 0)
        ELSE Outcome("Err", t, 0)

(***************************************************************************)
(* State                                                                   *)
(***************************************************************************)
VARIABLES
    codec,            \* the inputs and results of the calls on the helpers
                      \* and on SinglePageAllocation
    top,              \* SinglePageStack.top
    live,             \* the regions allocate has returned that no
                      \* deallocate has freed yet, oldest first
    last,             \* the last call on the stack, with the state it ran in
    aborted,          \* a panic has ended the program
    overflow_checks   \* the build panics on integer overflow

vars == <<codec, top, live, last, aborted, overflow_checks>>

stackVars == <<top, live, last, aborted>>

\* The inputs of the helpers: a pair of u16 and the u32 with these fields.
CodecInput(high, low) ==
    [in_high |-> high, in_low |-> low, in_word |-> WordOf(high, low),
     done |-> {},
     out_split |-> <<0, 0>>,       \* u32_split_bits(in_word)
     out_merge |-> ZeroWord,       \* u32_merge_bits(in_high, in_low)
     out_remerge |-> ZeroWord,     \* u32_merge_bits of out_split
     out_resplit |-> <<0, 0>>,     \* u32_split_bits(out_merge)
     out_new |-> Err(NoError),     \* SinglePageAllocation::new(out_merge)
     out_encode |-> ZeroWord]      \* out_new.unwrap().encode()

Call(op, a, word, out, t, l) ==
    [op |-> op, a |-> a, word |-> word, res |-> out.res, ret |-> out.ret,
     top |-> t, live |-> l]

NoCall ==
    Call("none", SinglePageAllocation(0, 0), ZeroWord, Outcome("Ok", 0, 0), 0, <<>>)

\* SinglePageStack::default(): top = 0
StackInit ==
    /\ top = 0
    /\ live = <<>>
    /\ last = NoCall
    /\ aborted = FALSE

Init ==
    /\ StackInit
    /\ overflow_checks \in BOOLEAN
    /\ codec = CodecInput(0, 0)

CodecInit ==
    /\ StackInit
    /\ overflow_checks \in BOOLEAN
    /\ \E high \in CodecSample, low \in CodecSample : codec = CodecInput(high, low)

(***************************************************************************)
(* Calls on the helpers and on SinglePageAllocation                        *)
(***************************************************************************)
SplitBits ==
    /\ "split" \notin codec.done
    /\ codec' = [codec EXCEPT !.out_split = u32_split_bits(codec.in_word),
                              !.done = @ \cup {"split"}]
    /\ UNCHANGED <<stackVars, overflow_checks>>

MergeBits ==
    /\ "merge" \notin codec.done
    /\ codec' = [codec EXCEPT !.out_merge = u32_merge_bits(codec.in_high, codec.in_low),
                              !.done = @ \cup {"merge"}]
    /\ UNCHANGED <<stackVars, overflow_checks>>

SplitThenMerge ==
    /\ "split" \in codec.done
    /\ "remerge" \notin codec.done
    /\ codec' = [codec EXCEPT
                   !.out_remerge = u32_merge_bits(codec.out_split[1], codec.out_split[2]),
                   !.done = @ \cup {"remerge"}]
    /\ UNCHANGED <<stackVars, overflow_checks>>

MergeThenSplit ==
    /\ "merge" \in codec.done
    /\ "resplit" \notin codec.done
    /\ codec' = [codec EXCEPT !.out_resplit = u32_split_bits(codec.out_merge),
                              !.done = @ \cup {"resplit"}]
    /\ UNCHANGED <<stackVars, overflow_checks>>

AllocationNew ==
    /\ "merge" \in codec.done
    /\ "new" \notin codec.done
    /\ codec' = [codec EXCEPT !.out_new = SinglePageAllocation_new(codec.out_merge),
                              !.done = @ \cup {"new"}]
    /\ UNCHANGED <<stackVars, overflow_checks>>

AllocationEncode ==
    /\ "new" \in codec.done
    /\ codec.out_new.ok
    /\ "encode" \notin codec.done
    /\ codec' = [codec EXCEPT !.out_encode = encode(codec.out_new.allocation),
                              !.done = @ \cup {"encode"}]
    /\ UNCHANGED <<stackVars, overflow_checks>>

CodecNext ==
    \/ SplitBits
    \/ MergeBits
    \/ SplitThenMerge
    \/ MergeThenSplit
    \/ AllocationNew
    \/ AllocationEncode

CodecSpec == CodecInit /\ [][CodecNext]_vars

(***************************************************************************)
(* Calls on the stack                                                      *)
(***************************************************************************)
\* The effect of a call on the stack on top, aborted and last.
Finish(op, a, word, out) ==
    /\ last' = Call(op, a, word, out, top, live)
    /\ aborted' = (out.res = "abort")
    /\ top' = IF out.res = "abort" THEN top ELSE out.top

\* The regions of s that end at or below t: deallocate has lowered top to
\* t, and allocate hands out again what lies above it.
Below(s, t) == SelectSeq(s, LAMBDA r : r.offset + r.length <= t)

StackNew ==
    /\ ~aborted
    /\ \E offset \in StackSample, length \in StackSample :
         LET last_allocation == SinglePageAllocation(offset, length)
             out == SinglePageStack_new(last_allocation)
         IN  /\ Finish("new", last_allocation, ZeroWord, out)
             /\ live' = IF out.res = "Ok" THEN <<>> ELSE live
    /\ UNCHANGED <<codec, overflow_checks>>

StackFromEncoded ==
    /\ ~aborted
    /\ \E offset \in StackSample, length \in StackSample :
         \E out \in {from_encoded(WordOf(offset, length))} :
             /\ Finish("from_encoded", SinglePageAllocation(offset, length),
                       WordOf(offset, length), out)
             /\ live' = IF out.res = "Ok" THEN <<>> ELSE live
    /\ UNCHANGED <<codec, overflow_checks>>

Allocate ==
    /\ ~aborted
    /\ Len(live) < MaxLive
    /\ \E size \in StackSample :
         LET out == allocate(top, size)
         IN  /\ Finish("allocate", SinglePageAllocation(top, size), ZeroWord, out)
             /\ live' = IF out.res = "Ok"
                        THEN Append(live, SinglePageAllocation(out.ret, size))
                        ELSE live
    /\ UNCHANGED <<codec, overflow_checks>>

Deallocate ==
    /\ ~aborted
    /\ \E offset \in StackSample, length \in StackSample :
         LET allocation == SinglePageAllocation(offset, length)
             out == deallocate(top, allocation, overflow_checks)
         IN  /\ Finish("deallocate", allocation, ZeroWord, out)
             /\ live' = IF out.res = "Ok" THEN Below(live, out.top) ELSE live
    /\ UNCHANGED <<codec, overflow_checks>>

\* SinglePageStack::top(self)
Top ==
    /\ ~aborted
    /\ Finish("top", SinglePageAllocation(0, 0), ZeroWord, Outcome("Ok", top, top))
    /\ UNCHANGED <<live, codec, overflow_checks>>

Next ==
    \/ Allocate
    \/ Deallocate
    \/ Top

Spec == Init /\ [][Next]_vars

\* SinglePageStack::from_encoded(a.encode()) for the allocation a that the
\* allocate just before has returned: the stack is rebuilt from the last
\* allocation, as it would be on the other side of the boundary, and the
\* regions handed out stay handed out.
Resume ==
    /\ ~aborted
    /\ last.op = "allocate"
    /\ last.res = "Ok"
    /\ LET allocation == SinglePageAllocation(last.ret, last.a.length)
           word == encode(allocation)
           out == from_encoded(word)
       IN  Finish("resume", allocation, word, out)
    /\ UNCHANGED <<live, codec, overflow_checks>>

ResumeNext ==
    \/ StackNew
    \/ StackFromEncoded
    \/ Allocate
    \/ Resume

ResumeSpec == Init /\ [][ResumeNext]_vars

(***************************************************************************)
(* Calls of a caller that keeps to the stack discipline: it allocates at   *)
(* least one byte and only what fits, and it deallocates only regions that *)
(* allocate has returned and that it has not freed yet.                    *)
(***************************************************************************)
\* s without its element i
RemoveAt(s, i) == SubSeq(s, 1, i - 1) \o SubSeq(s, i + 1, Len(s))

DisciplinedAllocate ==
    /\ ~aborted
    /\ Len(live) < MaxLive
    /\ \E size \in SizeSample :
         LET out == allocate(top, size)
         IN  /\ top + size <= U16_MAX
             /\ Finish("allocate", SinglePageAllocation(top, size), ZeroWord, out)
             /\ live' = IF out.res = "Ok"
                        THEN Append(live, SinglePageAllocation(out.ret, size))
                        ELSE live
    /\ UNCHANGED <<codec, overflow_checks>>

DisciplinedDeallocate ==
    /\ ~aborted
    /\ \E i \in 1..Len(live) :
         LET out == deallocate(top, live[i], overflow_checks)
         IN  /\ Finish("deallocate", live[i], ZeroWord, out)
             /\ live' = IF out.res = "Ok" THEN RemoveAt(live, i) ELSE live
    /\ UNCHANGED <<codec, overflow_checks>>

DisciplinedNext ==
    \/ DisciplinedAllocate
    \/ DisciplinedDeallocate

DisciplinedSpec == Init /\ [][DisciplinedNext]_vars

(***************************************************************************)
(* Properties of the helpers and of SinglePageAllocation, under CodecSpec. *)
(* The word decoded is u32_merge_bits(offset, length) with                 *)
(* offset = codec.in_high and length = codec.in_low.                       *)
(***************************************************************************)
Decoded == "new" \in codec.done

InPage == codec.in_low >= 1 /\ codec.in_high + codec.in_low <= U16_MAX

Overflowing == codec.in_low >= 1 /\ codec.in_high + codec.in_low > U16_MAX

\* C1: for every offset and length with length >= 1 and offset + length <=
\* 65535, new(u32_merge_bits(offset, length)) succeeds and encode() of the
\* result is u32_merge_bits(offset, length) again.
C1_RoundTrip ==
    (Decoded /\ InPage) =>
        /\ codec.out_new.ok
        /\ "encode" \in codec.done => codec.out_encode = codec.out_merge

\* C2: u32_merge_bits(u32_split_bits(w)) = w for every word w, and
\* u32_split_bits(u32_merge_bits(h, l)) = (h, l) for every pair of u16.
C2_SplitMergeInverses ==
    /\ "remerge" \in codec.done => codec.out_remerge = codec.in_word
    /\ "resplit" \in codec.done => codec.out_resplit = <<codec.in_high, codec.in_low>>

\* C3: u32_low_bits(w) is w mod 65536 (bits 15..0 of w) and u32_high_bits(w)
\* is w >> 16 (bits 31..16 of w).
C3_LowAndHighBits ==
    "split" \in codec.done =>
        /\ codec.out_split[2] = BitsValue(BitsOf(codec.in_word), 0, 16)
        /\ codec.out_split[1] = BitsValue(BitsOf(codec.in_word), 16, 16)

\* C4: for every offset and length with length >= 1 and offset + length >
\* 65535, new(u32_merge_bits(offset, length)) fails with OutOfMemory.
C4_OverflowIsOutOfMemory ==
    (Decoded /\ Overflowing) =>
        /\ ~codec.out_new.ok
        /\ codec.out_new.err = "OutOfMemory"

\* C5: for every offset, new(u32_merge_bits(offset, 0)) fails, with the
\* error of the catalog for that offset: 0 Success, 1 Failure,
\* 2 ArgumentDeserializationFailed, 3 OutOfMemory,
\* 4 ReceivedWrongActionResult, every other offset Failure.
C5_ZeroLengthIsError ==
    (Decoded /\ codec.in_low = 0) =>
        /\ ~codec.out_new.ok
        /\ codec.out_new.err =
             CASE codec.in_high = 0 -> "Success"
               [] codec.in_high = 1 -> "Failure"
               [] codec.in_high = 2 -> "ArgumentDeserializationFailed"
               [] codec.in_high = 3 -> "OutOfMemory"
               [] codec.in_high = 4 -> "ReceivedWrongActionResult"
               [] OTHER -> "Failure"

\* A zero-length word with an offset the catalog names has been decoded.
C5_Witness ==
    /\ Decoded
    /\ codec.in_low = 0
    /\ codec.in_high = 4
    /\ codec.out_new = Err("ReceivedWrongActionResult")

\* C7: whenever new returns Ok(a), a.length >= 1 and a.offset + a.length
\* <= 65535.
C7_OkIsValid ==
    (Decoded /\ codec.out_new.ok) =>
        /\ codec.out_new.allocation.length >= 1
        /\ codec.out_new.allocation.offset + codec.out_new.allocation.length <= U16_MAX

\* new has returned an allocation that ends at the last byte of the page.
C7_Witness ==
    /\ Decoded
    /\ codec.out_new.ok
    /\ codec.out_new.allocation.offset >= 1
    /\ codec.out_new.allocation.offset + codec.out_new.allocation.length = U16_MAX

\* The error new returns for the word with offset o and length field 0.
ZeroLengthError(o) == SinglePageAllocation_new(WordOf(o, 0))

C6_StrictLifo ==
    (last.op = "deallocate" /\ last.res = "Ok") =>
        /\ last.live # <<>>
        /\ last.a = last.live[Len(last.live)]

\* C9: with top = t and t + n <= 65535, allocate(n) returns t and sets top
\* to t + n, and a deallocate of {offset: t, length: n} right after it
\* returns Ok and sets top back to t.
C9_PushPopDuality ==
    [][/\ (last'.op = "allocate" /\ last'.top + last'.a.length <= U16_MAX) =>
            /\ last'.res = "Ok"
            /\ last'.ret = last'.top
            /\ top' = last'.top + last'.a.length
       /\ (/\ last.op = "allocate"
           /\ last.res = "Ok"
           /\ last'.op = "deallocate"
           /\ last'.a = SinglePageAllocation(last.ret, last.a.length)) =>
            /\ last'.res = "Ok"
            /\ top' = last.top]_vars

\* A region of at least one byte has been allocated above another one and
\* popped again.
C9_Witness ==
    /\ last.op = "deallocate"
    /\ last.res = "Ok"
    /\ last.live # <<>>
    /\ last.a = last.live[Len(last.live)]
    /\ last.a.length >= 1
    /\ last.a.offset >= 1
    /\ last.top = last.a.offset + last.a.length
    /\ top = last.a.offset

\* The two regions allocated last, oldest first.
RegionA(l) == l[Len(l) - 1]

RegionB(l) == l[Len(l)]

\* The state two consecutive allocations A then B leave, B of at least one
\* byte: B lies right above A and top is the end of B.
AfterAThenB(l, t) ==
    /\ Len(l) >= 2
    /\ RegionB(l).length >= 1
    /\ RegionB(l).offset = RegionA(l).offset + RegionA(l).length
    /\ t = RegionB(l).offset + RegionB(l).length

\* C10: after allocations A then B, B of at least one byte, deallocate(A)
\* returns Err and changes nothing as long as B is not deallocated,
\* deallocate(B) returns Ok, and the deallocate(A) that follows it returns Ok.
C10_LifoRejection ==
    [][last'.op = "deallocate" =>
        /\ AfterAThenB(live, top) =>
             /\ last'.a = RegionA(live) =>
                  /\ last'.res = "Err"
                  /\ top' = top
                  /\ live' = live
             /\ last'.a = RegionB(live) =>
                  /\ last'.res = "Ok"
                  /\ top' = RegionA(live).offset + RegionA(live).length
                  /\ live' = SubSeq(live, 1, Len(live) - 1)
        /\ (/\ last.op = "deallocate"
            /\ last.res = "Ok"
            /\ AfterAThenB(last.live, last.top)
            /\ last.a = RegionB(last.live)
            /\ last'.a = RegionA(last.live)) =>
             /\ last'.res = "Ok"
             /\ top' = RegionA(last.live).offset]_vars

\* deallocate(A) has been rejected while B was allocated above A.
C10_Witness ==
    /\ last.op = "deallocate"
    /\ AfterAThenB(last.live, last.top)
    /\ RegionA(last.live).length >= 1
    /\ last.a = RegionA(last.live)
    /\ last.res = "Err"

\* C11: whenever deallocate(a) returns Err, top after the call is top
\* before the call.
C11_FailedDeallocateChangesNothing ==
    (last.op = "deallocate" /\ last.res = "Err") => top = last.top

\* deallocate has rejected an allocation that lies below a top above 0.
C11_Witness ==
    /\ last.op = "deallocate"
    /\ last.res = "Err"
    /\ last.top >= 1
    /\ last.a.offset < last.top
    /\ top = last.top

\* C12: a returning allocate(size) leaves top = old top + size, never below
\* the old top, and a successful deallocate(a) leaves top = a.offset, never
\* above the old top, also when a.offset + a.length exceeds 65535.
C12_PushRaisesPopLowers ==
    /\ (last.op = "allocate" /\ last.res = "Ok") =>
            /\ top = last.top + last.a.length
            /\ top >= last.top
    /\ (last.op = "deallocate" /\ last.res = "Ok") =>
            /\ top = last.a.offset
            /\ top <= last.top

\* C13: allocate(size) returns exactly when top + size <= 65535 and aborts
\* otherwise; the region it returns ends within the page and top is the
\* unwrapped sum.
C13_AllocateStaysInPage ==
    last.op = "allocate" =>
        /\ last.res = "Ok" <=> last.top + last.a.length <= U16_MAX
        /\ last.res # "Ok" => (last.res = "abort" /\ aborted /\ top = last.top)
        /\ last.res = "Ok" =>
             /\ last.ret = last.top
             /\ last.ret + last.a.length <= U16_MAX
             /\ top = last.top + last.a.length

\* allocate has handed out the region that ends at the last byte of the page.
C13_Witness ==
    /\ last.op = "allocate"
    /\ last.res = "Ok"
    /\ last.top >= 1
    /\ last.a.length >= 1
    /\ top = U16_MAX

\* C14: a call aborts only in SinglePageStack::new with offset + length >
\* 65535, in from_encoded with a word that does not decode, or in allocate
\* with top + size > 65535; deallocate and top never abort.
C14_AbortsOnlyOnPreconditions ==
    aborted =>
        \/ /\ last.op = "new"
           /\ last.a.offset + last.a.length > U16_MAX
        \/ /\ last.op \in {"from_encoded", "resume"}
           /\ ~SinglePageAllocation_new(last.word).ok
        \/ /\ last.op = "allocate"
           /\ last.top + last.a.length > U16_MAX

\* C15: from_encoded(word) aborts exactly when SinglePageAllocation::new(word)
\* fails, and for a word that decodes to Ok({offset, length}) it returns the
\* stack with top = offset + length: no assert! fires after a decode.
C15_FromEncodedFollowsDecode ==
    last.op \in {"from_encoded", "resume"} =>
        LET decoded == SinglePageAllocation_new(last.word)
        IN  /\ last.res = "abort" <=> ~decoded.ok
            /\ last.res = "abort" => (aborted /\ top = last.top)
            /\ decoded.ok =>
                 /\ last.res = "Ok"
                 /\ top = decoded.allocation.offset + decoded.allocation.length

\* from_encoded has built the stack whose top is the last byte of the page.
C15_Witness ==
    /\ last.op = "from_encoded"
    /\ last.res = "Ok"
    /\ last.word.hi >= 1
    /\ last.word.lo >= 1
    /\ top = U16_MAX

\* C16: when allocate(n), n >= 1, has returned o, from_encoded of the
\* encoding of {offset: o, length: n} does not abort and gives the stack
\* whose top is the top allocate has left.
C16_ResumeReproducesTop ==
    (last.op = "resume" /\ last.a.length >= 1) =>
        /\ last.res = "Ok"
        /\ ~aborted
        /\ top = last.top

RECURSIVE SumOfLengths(_)
SumOfLengths(l) ==
    IF l = <<>> THEN 0 ELSE l[1].length + SumOfLengths(SubSeq(l, 2, Len(l)))

\* C17: under the stack discipline the live regions are pairwise disjoint
\* and tile [0, top) in allocation order, top is the sum of their lengths,
\* and deallocate returns Ok for the most recently allocated one and for no
\* other.
C17_DisciplinedPageIsConsistent ==
    /\ ~aborted
    /\ \A i \in 1..Len(live) : live[i].length >= 1
    /\ \A i, j \in 1..Len(live) :
         i < j => live[i].offset + live[i].length <= live[j].offset
    /\ \A i \in 1..Len(live) :
         live[i].offset = IF i = 1 THEN 0 ELSE live[i - 1].offset + live[i - 1].length
    /\ top = IF live = <<>> THEN 0
             ELSE live[Len(live)].offset + live[Len(live)].length
    /\ top = SumOfLengths(live)
    /\ \A i \in 1..Len(live) :
         deallocate(top, live[i], overflow_checks).res = "Ok" <=> i = Len(live)
    /\ last.op = "deallocate" =>
         (last.res = "Ok" <=> last.a = last.live[Len(last.live)])

\* With two regions live, deallocate has rejected the older one.
C17_Witness ==
    /\ Len(live) >= 2
    /\ last.op = "deallocate"
    /\ last.res = "Err"
    /\ last.a = live[1]
    /\ top = SumOfLengths(live)

====
